---- MODULE Spec2Model ----
(***************************************************************************)
(* Model of mm-desktop-versions (src/main.go): the session tally           *)
(* (processDatabase, aggregateCounts, printResults), the lookup mode       *)
(* (doLookup, isOlderOrEqual, splitVersion) and main's exit paths.         *)
(*                                                                         *)
(* Go strings that the program splits, searches or parses (browser, the    *)
(* version strings) are sequences of one-character strings; strings that   *)
(* the program only compares for equality (os, isMobile, device id, user   *)
(* id, DB type) are TLA+ strings.                                          *)
(***************************************************************************)
EXTENDS Integers, Sequences, FiniteSets, TLC

(* ---------------------------------------------------------------- bounds *)

\* Largest number of session rows the cursor delivers in one tally run.
MaxRows == 3

\* Largest number of session rows the cursor delivers in one lookup run.
MaxLookupRows == 2

\* Largest major/minor/patch number of the generated well-formed versions.
MaxComponent == 2

(* ------------------------------------------------------- string helpers *)

\* strings.HasPrefix(s[i-1:], sub), 1-based i
HasPrefixAt(s, sub, i) ==
    /\ i + Len(sub) - 1 <= Len(s)
    /\ \A k \in 1..Len(sub) : s[i + k - 1] = sub[k]

\* strings.Index(s, sub), 1-based; 0 when sub does not occur in s
Index(s, sub) ==
    LET hits == { i \in 1..(Len(s) + 1) : HasPrefixAt(s, sub, i) }
    IN  IF hits = {} THEN 0 ELSE CHOOSE i \in hits : \A j \in hits : i <= j

\* strings.Contains(s, sub)
Contains(s, sub) == Index(s, sub) # 0

\* strings.Split(s, sep) for a non-empty separator: the pieces of s between
\* the occurrences of sep, so always at least one piece.
RECURSIVE Split(_, _)
Split(s, sep) ==
    LET i == Index(s, sep)
    IN  IF i = 0
        THEN << s >>
        ELSE << SubSeq(s, 1, i - 1) >>
               \o Split(SubSeq(s, i + Len(sep), Len(s)), sep)

\* strings.Join(parts, sep)
RECURSIVE Join(_, _)
Join(parts, sep) ==
    IF Len(parts) = 0 THEN << >>
    ELSE IF Len(parts) = 1 THEN parts[1]
    ELSE parts[1] \o sep \o Join(Tail(parts), sep)

Digits == << "0", "1", "2", "3", "4", "5", "6", "7", "8", "9" >>

IsDigit(ch) == \E d \in 1..10 : Digits[d] = ch

DigitVal(ch) == (CHOOSE d \in 1..10 : Digits[d] = ch) - 1

\* the value of a sequence of decimal digits
RECURSIVE DigitsVal(_)
DigitsVal(s) ==
    IF Len(s) = 0 THEN 0
    ELSE DigitsVal(SubSeq(s, 1, Len(s) - 1)) * 10 + DigitVal(s[Len(s)])

AllDigits(body) == Len(body) >= 1 /\ \A k \in 1..Len(body) : IsDigit(body[k])

\* strconv.Atoi on the text after the sign
atoiUnsigned(body, negative) ==
    IF AllDigits(body)
    THEN [ err |-> FALSE,
           val |-> IF negative THEN 0 - DigitsVal(body) ELSE DigitsVal(body) ]
    ELSE [ err |-> TRUE, val |-> 0 ]

\* strconv.Atoi(s): an optional sign, then at least one character, all of
\* them decimal digits.  (The strings of this model are far shorter than the
\* 19 characters at which Atoi starts to check the range.)
Atoi(s) ==
    IF Len(s) > 0 /\ s[1] \in { "+", "-" }
    THEN atoiUnsigned(Tail(s), s[1] = "-")
    ELSE atoiUnsigned(s, FALSE)

\* strconv.Itoa(n) for 0 <= n <= 99
Itoa(n) ==
    IF n < 10 THEN << Digits[n + 1] >>
    ELSE << Digits[(n \div 10) + 1], Digits[(n % 10) + 1] >>

(* ------------------------------------------------- version comparison *)

Dot == << "." >>

\* splitVersion after strings.Split, on the three Atoi results in the order
\* the code tests them
versionOfAtoi(major, minor, patch) ==
    IF major.err \/ minor.err \/ patch.err
    THEN [ major |-> 0, minor |-> 0, patch |-> 0, err |-> TRUE ]
    ELSE [ major |-> major.val, minor |-> minor.val, patch |-> patch.val,
           err |-> FALSE ]

\* splitVersion after strings.Split
versionOfParts(parts) ==
    IF Len(parts) # 3
    THEN [ major |-> 0, minor |-> 0, patch |-> 0, err |-> TRUE ]
    ELSE versionOfAtoi(Atoi(parts[1]), Atoi(parts[2]), Atoi(parts[3]))

\* splitVersion: (major, minor, patch, err)
splitVersion(version) == versionOfParts(Split(version, Dot))

\* the comparison with the minor number compared before the major
compareMinorFirst(v, lv) ==
    IF v.err THEN [ res |-> FALSE, err |-> TRUE ]
    ELSE IF lv.err THEN [ res |-> FALSE, err |-> TRUE ]
    ELSE IF v.minor < lv.minor THEN [ res |-> TRUE, err |-> FALSE ]
    ELSE IF v.minor > lv.minor THEN [ res |-> FALSE, err |-> FALSE ]
    ELSE IF v.major < lv.major THEN [ res |-> TRUE, err |-> FALSE ]
    ELSE IF v.major > lv.major THEN [ res |-> FALSE, err |-> FALSE ]
    ELSE [ res |-> v.patch <= lv.patch, err |-> FALSE ]

\* isOlderOrEqual on the two results of splitVersion: the first error is
\* returned, else major, then minor, then patch decide
compareVersions(v, lv) ==
    IF v.err THEN [ res |-> FALSE, err |-> TRUE ]
    ELSE IF lv.err THEN [ res |-> FALSE, err |-> TRUE ]
    ELSE IF v.major < lv.major THEN [ res |-> TRUE, err |-> FALSE ]
    ELSE IF v.major > lv.major THEN [ res |-> FALSE, err |-> FALSE ]
    ELSE IF v.minor < lv.minor THEN [ res |-> TRUE, err |-> FALSE ]
    ELSE IF v.minor > lv.minor THEN [ res |-> FALSE, err |-> FALSE ]
    ELSE [ res |-> v.patch <= lv.patch, err |-> FALSE ]

\* isOlderOrEqual: (bool, err)
isOlderOrEqual(version, lookupVersion) ==
    compareVersions(splitVersion(version), splitVersion(lookupVersion))

(* ------------------------------------------------------ session records *)

\* the literal the desktop predicate looks for
DesktopApp == << "D", "e", "s", "k", "t", "o", "p", " ", "A", "p", "p" >>

\* the literal version of an unrecognised client
ZeroVersion == << "0", ".", "0" >>

Slash == << "/" >>

Plus == << "+" >>

\* "a.b.c"
Ver(a, b, c) == Join(<< Itoa(a), Itoa(b), Itoa(c) >>, Dot)

\* browser strings of the sessions table
DesktopName == << "M", "a", "t", "t", "e", "r", "m", "o", "s", "t", " ", "D", "e", "s", "k", "t", "o", "p", " ", "A", "p", "p" >>

MobileName == << "M", "o", "b", "i", "l", "e", " ", "A", "p", "p" >>

BuildSuffix == << "+", "4", "5" >>

\* The props column: the JSON text of one session.  kind "object" is a JSON
\* object whose members are strings; "mistyped" is a JSON object whose
\* isMobile member is the JSON boolean true; "malformed" is not JSON.
PropsText(kind, browser, os, isMobile, deviceid) ==
    [ kind |-> kind, browser |-> browser, os |-> os,
      isMobile |-> isMobile, deviceid |-> deviceid ]

\* one row of the sessions query: (userid, props, deviceid)
SessionRow(userID, props, deviceID) ==
    [ userID |-> userID, props |-> props, deviceID |-> deviceID ]

DesktopRows ==
    { SessionRow("u1", PropsText("object", DesktopName \o Slash \o Ver(1, 0, 0),
                                 "Windows", "false", ""), ""),
      SessionRow("u2", PropsText("object", DesktopName \o Slash \o Ver(1, 0, 0),
                                 "Mac OS", "", ""), ""),
      SessionRow("u1", PropsText("object", DesktopName \o Slash \o Ver(2, 0, 0),
                                 "Windows", "", ""), ""),
      SessionRow("u1", PropsText("object", DesktopName \o Slash \o ZeroVersion,
                                 "Windows", "", ""), ""),
      SessionRow("u1", PropsText("object",
                                 DesktopName \o Slash \o Ver(1, 0, 0) \o Slash \o << "x" >>,
                                 "Linux", "", ""), ""),
      SessionRow("u1", PropsText("object", DesktopName, "Linux", "", ""), ""),
      SessionRow("u1", PropsText("object", DesktopName \o Slash \o << "1", ".", "0" >>,
                                 "Linux", "", "dev9"), "") }

MobileRows ==
    { SessionRow("u1", PropsText("object", MobileName \o Slash \o Ver(2, 0, 0) \o BuildSuffix,
                                 "iOS", "true", ""), "dev1"),
      SessionRow("u2", PropsText("object", MobileName \o Slash \o ZeroVersion,
                                 "Android", "", ""), ""),
      SessionRow("u1", PropsText("object",
                                 MobileName \o Slash \o << "x" >> \o Slash \o Ver(2, 0, 0) \o BuildSuffix,
                                 "Windows", "true", ""), ""),
      SessionRow("u1", PropsText("object", DesktopName \o Slash \o Ver(1, 0, 0),
                                 "Windows", "false", ""), "dev1") }

OtherRows ==
    { SessionRow("u1", PropsText("object", << "C", "h", "r", "o", "m", "e", "/", "9" >>,
                                 "Windows", "", ""), ""),
      SessionRow("u1", PropsText("malformed", << >>, "", "", ""), ""),
      SessionRow("u1", PropsText("mistyped", DesktopName \o Slash \o Ver(1, 0, 0),
                                 "Windows", "", ""), "") }

\* the rows of SessionRows that put an event into an aggregate, and the
\* malformed one
CountedRows ==
    { r \in DesktopRows \cup MobileRows \cup OtherRows :
        \/ r.props.kind = "malformed"
        \/ /\ r.props.kind = "object"
           /\ r.props.browser \in { DesktopName \o Slash \o Ver(1, 0, 0),
                                    DesktopName \o Slash \o Ver(2, 0, 0),
                                    MobileName \o Slash \o Ver(2, 0, 0) \o BuildSuffix,
                                    MobileName \o Slash \o ZeroVersion } }

\* the rows the sessions query can deliver
SessionRows == DesktopRows \cup MobileRows \cup OtherRows

\* the users table: the rows of SELECT ... FROM users WHERE id = userID
Users(userID) ==
    IF userID = "u1" THEN << [ username |-> "alice", email |-> "a@x" ] >> ELSE << >>

\* the values of -ver ("" when the flag is absent)
LookupVersions == { << >>, Ver(1, 0, 0), << "1", ".", "0" >> }

\* the values of config.DB.Type
DBTypes == { "postgresql", "mysql", "sqlite" }

(* ------------------------------------------------------------ decoding *)

\* the zero value of Props
ZeroProps == [ Browser |-> << >>, OS |-> "", IsMobile |-> "", DeviceID |-> "" ]

\* json.Unmarshal whose type error is dropped
UnmarshalIgnoreTypeError(props) ==
    IF props.kind = "malformed"
    THEN [ err |-> TRUE, data |-> ZeroProps ]
    ELSE [ err |-> FALSE,
           data |-> [ Browser |-> props.browser, OS |-> props.os,
                      IsMobile |-> IF props.kind = "mistyped" THEN "" ELSE props.isMobile,
                      DeviceID |-> props.deviceid ] ]

\* json.Unmarshal([]byte(props), &propData): a syntax error leaves propData
\* untouched; a member of the wrong JSON type is skipped, the other members
\* are stored, and the type error is returned.
Unmarshal(props) ==
    IF props.kind = "malformed"
    THEN [ err |-> TRUE, data |-> ZeroProps ]
    ELSE IF props.kind = "mistyped"
    THEN [ err |-> TRUE,
           data |-> [ Browser |-> props.browser, OS |-> props.os,
                      IsMobile |-> "", DeviceID |-> props.deviceid ] ]
    ELSE [ err |-> FALSE,
           data |-> [ Browser |-> props.browser, OS |-> props.os,
                      IsMobile |-> props.isMobile, DeviceID |-> props.deviceid ] ]

\* the mobile predicate of both scans
IsMobileSession(propData, deviceID) ==
    \/ propData.IsMobile = "true"
    \/ deviceID # ""
    \/ propData.OS = "Android"
    \/ propData.OS = "iOS"

\* the chain with the desktop test ahead of the mobile test
ClientClassDesktopFirst(propData, deviceID) ==
    IF Contains(propData.Browser, DesktopApp) THEN "Desktop"
    ELSE IF IsMobileSession(propData, deviceID) THEN "Mobile"
    ELSE "Unclassified"

\* the branch of the if / else-if chain a decoded record takes
ClientClass(propData, deviceID) ==
    IF IsMobileSession(propData, deviceID) THEN "Mobile"
    ELSE IF Contains(propData.Browser, DesktopApp) THEN "Desktop"
    ELSE "Unclassified"

(* -------------------------------------------------------- tally: collect *)

\* make(VersionCount)
EmptyCount == [ v \in {} |-> << >> ]

\* versionCount[version] = append(versionCount[version], VersionInfo{os, 1})
appendInfo(versionCount, version, os) ==
    IF version \in DOMAIN versionCount
    THEN [ versionCount EXCEPT ![version] = Append(@, [ OS |-> os, Count |-> 1 ]) ]
    ELSE versionCount @@ (version :> << [ OS |-> os, Count |-> 1 ] >>)

\* the mobile version without its build suffix cut off
mobileVersionKeepBuild(parts) == parts[2]

\* the mobile branch's version: parts[1] of the browser, cut at the first "+"
mobileVersion(parts) == Split(parts[2], Plus)[1]

\* the desktop branch counts a browser of one or more "/" as a version
desktopCountedLoose(parts) == Len(parts) >= 2 /\ parts[2] # ZeroVersion

\* the desktop branch appends an event: two segments, version not "0.0"
desktopCounted(parts) == Len(parts) = 2 /\ parts[2] # ZeroVersion

\* the mobile branch's append, with the warning for version "0.0"
tallyMobile(acc, version, os) ==
    [ desktop  |-> acc.desktop,
      mobile   |-> appendInfo(acc.mobile, version, os),
      warnings |-> IF version = ZeroVersion
                   THEN Append(acc.warnings,
                               [ kind |-> "unrecognised", version |-> version ])
                   ELSE acc.warnings ]

\* the if / else-if chain of processDatabase's loop, on the record's class
\* and the "/"-separated parts of its browser
tallyClass(acc, class, parts, os) ==
    IF class = "Mobile"
    THEN IF Len(parts) = 2 THEN tallyMobile(acc, mobileVersion(parts), os) ELSE acc
    ELSE IF class = "Desktop"
    THEN IF desktopCounted(parts)
         THEN [ acc EXCEPT !.desktop = appendInfo(@, parts[2], os) ]
         ELSE acc
    ELSE acc

\* processDatabase's loop from propData.DeviceID = deviceID on
tallyProps(acc, propData, deviceID) ==
    tallyClass(acc, ClientClass(propData, deviceID),
               Split(propData.Browser, Slash), propData.OS)

\* processDatabase's loop from json.Unmarshal on, given its result
tallyDecoded(acc, u, deviceID) ==
    IF u.err
    THEN [ acc EXCEPT !.warnings =
               Append(@, [ kind |-> "unmarshal", version |-> << >> ]) ]
    ELSE tallyProps(acc, [ u.data EXCEPT !.DeviceID = deviceID ], deviceID)

\* One iteration of processDatabase's loop after a successful rows.Scan, on
\* acc = [desktop, mobile, warnings].
tallyRow(acc, row) == tallyDecoded(acc, Unmarshal(row.props), row.deviceID)

\* the loop of processDatabase over a whole stream of rows
RECURSIVE collect(_)
collect(rows) ==
    IF Len(rows) = 0
    THEN [ desktop |-> EmptyCount, mobile |-> EmptyCount, warnings |-> << >> ]
    ELSE tallyRow(collect(SubSeq(rows, 1, Len(rows) - 1)), rows[Len(rows)])

(* ---------------------------------------------------- tally: consolidate *)

\* osCount with "=" in place of "+="
RECURSIVE osCountAssign(_)
osCountAssign(infos) ==
    IF Len(infos) = 0 THEN [ o \in {} |-> 0 ]
    ELSE LET m    == osCountAssign(SubSeq(infos, 1, Len(infos) - 1))
             info == infos[Len(infos)]
         IN  IF info.OS \in DOMAIN m
             THEN [ m EXCEPT ![info.OS] = info.Count ]
             ELSE m @@ (info.OS :> info.Count)

\* osCount[info.OS] += info.Count over the infos of one version
RECURSIVE osCount(_)
osCount(infos) ==
    IF Len(infos) = 0 THEN [ o \in {} |-> 0 ]
    ELSE LET m    == osCount(SubSeq(infos, 1, Len(infos) - 1))
             info == infos[Len(infos)]
         IN  IF info.OS \in DOMAIN m
             THEN [ m EXCEPT ![info.OS] = @ + info.Count ]
             ELSE m @@ (info.OS :> info.Count)

\* a consolidation that only merges neighbouring infos of the same OS
RECURSIVE mergeAdjacent(_)
mergeAdjacent(infos) ==
    IF Len(infos) <= 1 THEN infos
    ELSE LET front == mergeAdjacent(SubSeq(infos, 1, Len(infos) - 1))
             info  == infos[Len(infos)]
             prev  == front[Len(front)]
         IN  IF prev.OS = info.OS
             THEN [ front EXCEPT ![Len(front)] =
                        [ OS |-> prev.OS, Count |-> prev.Count + info.Count ] ]
             ELSE Append(front, info)

consolidateAdjacent(infos) == { mergeAdjacent(infos) }

\* The new slice of one version: one VersionInfo per key of osCount, in the
\* order in which range visits the map, which Go leaves unspecified: every
\* order is a possible outcome.
consolidate(infos) ==
    LET m  == osCount(infos)
        n  == Cardinality(DOMAIN m)
    IN  { [ i \in 1..n |-> [ OS |-> order[i], Count |-> m[order[i]] ] ] :
            order \in { o \in [ 1..n -> DOMAIN m ] :
                          \A i, j \in 1..n : i # j => o[i] # o[j] } }

\* aggregateCounts(versionCount): the possible contents of the map afterwards
aggregateCounts(versionCount) ==
    { f \in [ DOMAIN versionCount ->
                UNION { consolidate(versionCount[v]) : v \in DOMAIN versionCount } ] :
        \A v \in DOMAIN versionCount : f[v] \in consolidate(versionCount[v]) }

(* ----------------------------------------------------------- the report *)

RECURSIVE sumCounts(_)
sumCounts(infos) ==
    IF Len(infos) = 0 THEN 0
    ELSE sumCounts(SubSeq(infos, 1, Len(infos) - 1)) + infos[Len(infos)].Count

\* a total that counts the entries of the aggregate, not their sessions
RECURSIVE totalEntries(_)
totalEntries(versionCount) ==
    IF DOMAIN versionCount = {} THEN 0
    ELSE LET v == CHOOSE x \in DOMAIN versionCount : TRUE
         IN  Len(versionCount[v])
               + totalEntries([ x \in DOMAIN versionCount \ { v } |-> versionCount[x] ])

\* totalDesktopClients / totalMobileClients
RECURSIVE totalClients(_)
totalClients(versionCount) ==
    IF DOMAIN versionCount = {} THEN 0
    ELSE LET v == CHOOSE x \in DOMAIN versionCount : TRUE
         IN  sumCounts(versionCount[v])
               + totalClients([ x \in DOMAIN versionCount \ { v } |-> versionCount[x] ])

\* The "  %s (%s) - %d" lines of one class.  The order of the lines follows
\* Go's map iteration and is not modelled: the lines are kept as a bag, each
\* line with the number of times it is printed.
versionLines(versionCount) ==
    LET at      == UNION { { << v, i >> : i \in 1..Len(versionCount[v]) } :
                             v \in DOMAIN versionCount }
        line(o) == [ version |-> o[1],
                     os      |-> versionCount[o[1]][o[2]].OS,
                     count   |-> versionCount[o[1]][o[2]].Count ]
    IN  [ l \in { line(o) : o \in at } |-> Cardinality({ o \in at : line(o) = l }) ]

\* One class's part of the report: the header, the lines and the subtotal
\* ("versions"), or the line that says that none were found.
section(versionCount) ==
    IF DOMAIN versionCount # {}
    THEN [ shown |-> "versions", lines |-> versionLines(versionCount),
           total |-> totalClients(versionCount) ]
    ELSE [ shown |-> "none found" ]

NoReport == [ text |-> "nothing printed" ]

\* printResults: what is written to standard output
printResults(desktopVersionCount, mobileVersionCount) ==
    IF DOMAIN desktopVersionCount = {} /\ DOMAIN mobileVersionCount = {}
    THEN [ text |-> "No Mattermost Apps Found" ]
    ELSE [ text       |-> "sections",
           desktop    |-> section(desktopVersionCount),
           mobile     |-> section(mobileVersionCount),
           grandTotal |-> totalClients(desktopVersionCount)
                            + totalClients(mobileVersionCount) ]

(* --------------------------------------------------------------- lookup *)

\* processRow that stays false when the comparison fails
lookupProcessRowFailClosed(cmp) == [ processRow |-> cmp.res, warn |-> cmp.err ]

\* processRow, err = isOlderOrEqual(...); if err != nil { warn; processRow = true }
lookupProcessRow(cmp) ==
    IF cmp.err
    THEN [ processRow |-> TRUE, warn |-> TRUE ]
    ELSE [ processRow |-> cmp.res, warn |-> FALSE ]

\* the desktop branch of doLookup's loop after the comparison d
lookupDesktop(acc, d, version, os, userID) ==
    [ selected |-> IF d.processRow
                   THEN Append(acc.selected,
                               [ version |-> version, os |-> os, userID |-> userID ])
                   ELSE acc.selected,
      warnings |-> IF d.warn
                   THEN Append(acc.warnings, [ kind |-> "version", version |-> version ])
                   ELSE acc.warnings ]

\* the if / else-if chain of doLookup's loop, on the record's class and the
\* "/"-separated parts of its browser: mobile records are skipped
lookupClass(acc, class, parts, os, userID, lookupVersion) ==
    IF class = "Desktop" /\ Len(parts) = 2 /\ parts[2] # ZeroVersion
    THEN lookupDesktop(acc, lookupProcessRow(isOlderOrEqual(parts[2], lookupVersion)),
                       parts[2], os, userID)
    ELSE acc

\* doLookup's loop from propData.DeviceID = deviceID on
lookupProps(acc, propData, deviceID, userID, lookupVersion) ==
    lookupClass(acc, ClientClass(propData, deviceID),
                Split(propData.Browser, Slash), propData.OS, userID, lookupVersion)

\* doLookup's loop from json.Unmarshal on, given its result
lookupDecoded(acc, u, deviceID, userID, lookupVersion) ==
    IF u.err
    THEN [ acc EXCEPT !.warnings =
               Append(@, [ kind |-> "unmarshal", version |-> << >> ]) ]
    ELSE lookupProps(acc, [ u.data EXCEPT !.DeviceID = deviceID ], deviceID,
                     userID, lookupVersion)

\* One iteration of doLookup's loop after a successful rows.Scan, up to the
\* test of processRow, on acc = [selected, warnings]: what the row adds to
\* the sessions selected for the users query.
lookupRow(acc, row, lookupVersion) ==
    lookupDecoded(acc, Unmarshal(row.props), row.deviceID, row.userID, lookupVersion)

\* the selection of doLookup's loop over a whole stream of rows
RECURSIVE lookupAll(_, _)
lookupAll(rows, lookupVersion) ==
    IF Len(rows) = 0
    THEN [ selected |-> << >>, warnings |-> << >> ]
    ELSE lookupRow(lookupAll(SubSeq(rows, 1, Len(rows) - 1), lookupVersion),
                   rows[Len(rows)], lookupVersion)

\* the CSV header row
CsvHeader == [ version |-> << >>, os |-> "OS", username |-> "Username", email |-> "Email" ]

(* ------------------------------------------------- inputs of the comparator *)

\* Version strings with what they denote: ok says that the string has exactly
\* three "."-separated integer components, num gives the three integers.
VersionInput(str, ok, num) == [ str |-> str, ok |-> ok, num |-> num ]

WellFormedInputs ==
    { VersionInput(Ver(a, b, c), TRUE, << a, b, c >>) :
        a \in 0..MaxComponent, b \in 0..MaxComponent, c \in 0..MaxComponent }
    \cup
    { VersionInput(<< "1", "0", ".", "0", ".", "1" >>, TRUE, << 10, 0, 1 >>),
      VersionInput(<< "+", "1", ".", "0", "2", ".", "-", "1" >>, TRUE, << 1, 2, 0 - 1 >>),
      VersionInput(<< "1", ".", "1", "0", ".", "0" >>, TRUE, << 1, 10, 0 >>) }

MalformedInputs ==
    { VersionInput(<< >>, FALSE, << >>),
      VersionInput(<< "1", ".", "0" >>, FALSE, << >>),
      VersionInput(<< "1", ".", "0", ".", "0", ".", "0" >>, FALSE, << >>),
      VersionInput(<< "1", ".", "x", ".", "0" >>, FALSE, << >>),
      VersionInput(<< "1", ".", ".", "0" >>, FALSE, << >>),
      VersionInput(<< "v", "1", ".", "0", ".", "0" >>, FALSE, << >>),
      VersionInput(<< "1", ".", "0", ".", "0", "-", "r", "c" >>, FALSE, << >>),
      VersionInput(<< "1", ".", "0", ".", "+" >>, FALSE, << >>) }

VersionInputs == WellFormedInputs \cup MalformedInputs

NoInput == VersionInput(<< >>, FALSE, << >>)

NoOutput == [ done |-> FALSE, res |-> FALSE, err |-> FALSE ]

(* ---------------------------------------------------------------- state *)

VARIABLES
    pc,                   \* where main is
    lookupMode,           \* -lookup
    lookupVersion,        \* -ver
    dbType,               \* config.DB.Type
    db,                   \* main's db: "unset", "nil" or "open"
    dbErr,                \* main's dbErr is non-nil
    queryAttempts,        \* calls of db.Query so far
    seen,                 \* the session rows scanned so far, in order
    desktopVersionCount,
    mobileVersionCount,
    selected,             \* the sessions doLookup took with processRow true
    csv,                  \* the records written to the CSV writer
    warnings,             \* LogMessage(warningLevel, ...) so far
    errors,               \* LogMessage(errorLevel, ...) so far
    failures,             \* the failures the environment has produced so far
    funcErr,              \* what processDatabase / doLookup returned as error
    report,               \* what printResults wrote
    exitCode,             \* the process's exit status, -1 while it runs
    exitBy,               \* "running", "os.Exit", "return" or "panic"
    sessions,             \* the rows the sessions query can deliver
    cmpA, cmpB, cmpOut    \* the comparator applied on its own

mainVars == << pc, lookupMode, lookupVersion, dbType, db, dbErr, queryAttempts,
               seen, desktopVersionCount, mobileVersionCount, selected, csv,
               warnings, errors, failures, funcErr, report, exitCode, exitBy,
               sessions >>

cmpVars == << cmpA, cmpB, cmpOut >>

\* what no step of main changes
fixedVars == << sessions, cmpA, cmpB, cmpOut >>

vars == << mainVars, cmpVars >>

scanVars == << seen, desktopVersionCount, mobileVersionCount, selected, csv,
               warnings, report >>

MainInit ==
    /\ pc = "start"
    /\ lookupMode = FALSE
    /\ lookupVersion = << >>
    /\ dbType = ""
    /\ db = "unset"
    /\ dbErr = FALSE
    /\ queryAttempts = 0
    /\ seen = << >>
    /\ desktopVersionCount = EmptyCount
    /\ mobileVersionCount = EmptyCount
    /\ selected = << >>
    /\ csv = << >>
    /\ warnings = << >>
    /\ errors = << >>
    /\ failures = {}
    /\ funcErr = "unset"
    /\ report = NoReport
    /\ exitCode = 0 - 1
    /\ exitBy = "running"

Init ==
    /\ MainInit
    /\ sessions = SessionRows
    /\ cmpA = NoInput
    /\ cmpB = NoInput
    /\ cmpOut = NoOutput

\* the process ends with status code
Exit(code, by) ==
    /\ pc' = "exited"
    /\ exitCode' = code
    /\ exitBy' = by

(* ----------------------------------------------------------------- main *)

\* main, up to loadConfig: the flags.  (-ver without -lookup is never read,
\* so it is drawn only with -lookup.)
MainFlags ==
    /\ pc = "start"
    /\ \E showVersion \in BOOLEAN, lm \in BOOLEAN, ver \in LookupVersions :
         /\ lm = FALSE => ver = << >>
         /\ lookupMode' = lm
         /\ lookupVersion' = ver
         /\ IF showVersion
            THEN Exit(1, "os.Exit") /\ UNCHANGED errors
            ELSE IF lm /\ ver = << >>
            THEN /\ Exit(1, "os.Exit")
                 /\ errors' = Append(errors, "A desktop client version is required for lookup mode")
            ELSE /\ pc' = "loadConfig"
                 /\ UNCHANGED << errors, exitCode, exitBy >>
    /\ UNCHANGED << dbType, db, dbErr, queryAttempts, scanVars, failures, funcErr >>
    /\ UNCHANGED fixedVars

\* loadConfig and main's test of cfgErr
LoadConfig ==
    /\ pc = "loadConfig"
    /\ \E ok \in BOOLEAN, type \in DBTypes :
         IF ok
         THEN /\ dbType' = type
              /\ pc' = "connect"
              /\ UNCHANGED << errors, failures, exitCode, exitBy >>
         ELSE /\ type = "postgresql"      \* no type is read: one failing step
              /\ errors' = errors \o << "Error reading config file", "Failed to process config file" >>
              /\ failures' = failures \cup { "config" }
              /\ Exit(2, "os.Exit")
              /\ UNCHANGED dbType
    /\ UNCHANGED << lookupMode, lookupVersion, db, dbErr, queryAttempts, scanVars, funcErr >>
    /\ UNCHANGED fixedVars

\* connectDatabase and main's test of dbErr.  In the unsupported branch the
\* function returns its local err, which nothing has assigned: nil.
ConnectDatabase ==
    /\ pc = "connect"
    /\ IF dbType \in { "postgresql", "mysql" }
       THEN \E openErr \in BOOLEAN :
              IF openErr
              THEN /\ db' = "nil"
                   /\ dbErr' = TRUE
                   /\ errors' = errors \o << "Error opening database", "Failed to connect to database" >>
                   /\ failures' = failures \cup { "open" }
                   /\ Exit(3, "os.Exit")
              ELSE /\ db' = "open"
                   /\ dbErr' = FALSE
                   /\ pc' = IF lookupMode THEN "doLookup" ELSE "processDatabase"
                   /\ UNCHANGED << errors, failures, exitCode, exitBy >>
       ELSE /\ db' = "nil"
            /\ dbErr' = FALSE
            /\ errors' = Append(errors, "Unsupported DB type")
            /\ pc' = IF lookupMode THEN "doLookup" ELSE "processDatabase"
            /\ UNCHANGED << failures, exitCode, exitBy >>
    /\ UNCHANGED << lookupMode, lookupVersion, dbType, queryAttempts, scanVars, funcErr >>
    /\ UNCHANGED fixedVars

(* ------------------------------------------------------------ tally mode *)

\* processDatabase up to its loop: the sessions query.  db.Query on the nil
\* *sql.DB that an unsupported DB type leaves in main dereferences nil: the
\* process panics (exit status 2).
processDatabaseQuery ==
    /\ pc = "processDatabase"
    /\ queryAttempts' = queryAttempts + 1
    /\ IF db = "nil"
       THEN /\ Exit(2, "panic")
            /\ UNCHANGED << errors, failures, funcErr >>
       ELSE \E queryErr \in BOOLEAN :
              IF queryErr
              THEN /\ errors' = errors \o << "Error executing query", "Error processing database" >>
                   /\ failures' = failures \cup { "query" }
                   /\ funcErr' = "error"
                   /\ Exit(4, "os.Exit")
              ELSE /\ pc' = "scan"
                   /\ UNCHANGED << errors, failures, funcErr, exitCode, exitBy >>
    /\ UNCHANGED << lookupMode, lookupVersion, dbType, db, dbErr, scanVars >>
    /\ UNCHANGED fixedVars

\* one iteration of processDatabase's loop: rows.Next() is true
processDatabaseRow ==
    /\ pc = "scan"
    /\ Len(seen) < MaxRows
    /\ \E row \in sessions, scanErr \in BOOLEAN :
         IF scanErr
         THEN /\ errors' = errors \o << "Error scanning row", "Error processing database" >>
              /\ failures' = failures \cup { "scan" }
              /\ funcErr' = "error"
              /\ desktopVersionCount' = EmptyCount
              /\ mobileVersionCount' = EmptyCount
              /\ Exit(4, "os.Exit")
              /\ UNCHANGED << seen, warnings >>
         ELSE \E acc \in { tallyRow([ desktop  |-> desktopVersionCount,
                                      mobile   |-> mobileVersionCount,
                                      warnings |-> warnings ], row) } :
                  /\ seen' = Append(seen, row)
                  /\ desktopVersionCount' = acc.desktop
                  /\ mobileVersionCount' = acc.mobile
                  /\ warnings' = acc.warnings
                  /\ UNCHANGED << pc, errors, failures, funcErr, exitCode, exitBy >>
    /\ UNCHANGED << lookupMode, lookupVersion, dbType, db, dbErr, queryAttempts,
                    selected, csv, report >>
    /\ UNCHANGED fixedVars

\* rows.Next() is false: the test of rows.Err(), aggregateCounts on both
\* maps, the return to main, printResults, and the end of main
processDatabaseEnd ==
    /\ pc = "scan"
    /\ \E iterErr \in BOOLEAN :
         IF iterErr
         THEN /\ errors' = errors \o << "Error iterating over rows", "Error processing database" >>
              /\ failures' = failures \cup { "iter" }
              /\ funcErr' = "error"
              /\ desktopVersionCount' = EmptyCount
              /\ mobileVersionCount' = EmptyCount
              /\ Exit(4, "os.Exit")
              /\ UNCHANGED report
         ELSE \E d \in aggregateCounts(desktopVersionCount),
                 m \in aggregateCounts(mobileVersionCount) :
                /\ desktopVersionCount' = d
                /\ mobileVersionCount' = m
                /\ report' = printResults(d, m)
                /\ funcErr' = "nil"
                /\ Exit(0, "return")
                /\ UNCHANGED << errors, failures >>
    /\ UNCHANGED << lookupMode, lookupVersion, dbType, db, dbErr, queryAttempts,
                    seen, selected, csv, warnings >>
    /\ UNCHANGED fixedVars

(* ----------------------------------------------------------- lookup mode *)

\* doLookup up to its loop: the output file, the header row, the sessions
\* query (on a nil db: the panic of processDatabaseQuery)
doLookupOpen ==
    /\ pc = "doLookup"
    /\ \E out \in { "createError", "headerError", "queryError", "rows" } :
         IF out \in { "createError", "headerError" }
         THEN /\ errors' = errors \o << "Failed to create CSV file or header", "Error processing lookup" >>
              /\ failures' = failures \cup { out }
              /\ funcErr' = "error"
              /\ Exit(10, "os.Exit")
              /\ UNCHANGED << queryAttempts, csv >>
         ELSE /\ csv' = << CsvHeader >>
              /\ queryAttempts' = queryAttempts + 1
              /\ IF db = "nil"
                 THEN /\ out = "rows"
                      /\ Exit(2, "panic")
                      /\ UNCHANGED << errors, failures, funcErr >>
                 ELSE IF out = "queryError"
                 THEN /\ errors' = errors \o << "Error executing query", "Error processing lookup" >>
                      /\ failures' = failures \cup { "query" }
                      /\ funcErr' = "error"
                      /\ Exit(10, "os.Exit")
                 ELSE /\ pc' = "lookupScan"
                      /\ UNCHANGED << errors, failures, funcErr, exitCode, exitBy >>
    /\ UNCHANGED << lookupMode, lookupVersion, dbType, db, dbErr, seen,
                    desktopVersionCount, mobileVersionCount, selected, warnings, report >>
    /\ UNCHANGED fixedVars

\* what the users query and its loop can do for one selected session
UserOutcomes(userID) ==
    IF Len(Users(userID)) = 0
    THEN { "queryError", "noRows" }
    ELSE { "queryError", "scanError", "iterError", "written", "writeError" }

\* one iteration of doLookup's loop: rows.Next() is true
doLookupRow ==
    /\ pc = "lookupScan"
    /\ Len(seen) < MaxLookupRows
    /\ \E row \in sessions,
          out \in { "rowScanError", "skipped", "queryError", "noRows", "scanError",
                    "iterError", "written", "writeError" } :
         IF out = "rowScanError"
         THEN /\ errors' = errors \o << "Error scanning row", "Error processing lookup" >>
              /\ failures' = failures \cup { "scan" }
              /\ funcErr' = "error"
              /\ Exit(10, "os.Exit")
              /\ UNCHANGED << seen, selected, warnings, csv, queryAttempts >>
         ELSE \E acc \in { lookupRow([ selected |-> selected, warnings |-> warnings ],
                                      row, lookupVersion) } :
                  /\ seen' = Append(seen, row)
                  /\ selected' = acc.selected
                  /\ IF Len(acc.selected) = Len(selected)
                     THEN /\ out = "skipped"
                          /\ warnings' = acc.warnings
                          /\ UNCHANGED << pc, errors, failures, funcErr, exitCode, exitBy,
                                          csv, queryAttempts >>
                     ELSE /\ out \in UserOutcomes(row.userID)
                          /\ queryAttempts' = queryAttempts + 1
                          /\ IF out \in { "queryError", "scanError" }
                             THEN /\ errors' = errors \o << "Error in users query", "Error processing lookup" >>
                                  /\ failures' = failures \cup
                                        { IF out = "queryError" THEN "userQuery" ELSE "userScan" }
                                  /\ funcErr' = "error"
                                  /\ Exit(10, "os.Exit")
                                  /\ warnings' = acc.warnings
                                  /\ UNCHANGED csv
                             ELSE /\ csv' = IF out = "written"
                                            THEN Append(csv, [ version  |-> acc.selected[Len(acc.selected)].version,
                                                               os       |-> acc.selected[Len(acc.selected)].os,
                                                               username |-> Users(row.userID)[1].username,
                                                               email    |-> Users(row.userID)[1].email ])
                                            ELSE csv
                                  /\ warnings' = IF out = "writeError"
                                                 THEN Append(acc.warnings,
                                                             [ kind |-> "csv",
                                                               version |-> acc.selected[Len(acc.selected)].version ])
                                                 ELSE acc.warnings
                                  /\ failures' = IF out = "iterError"
                                                 THEN failures \cup { "userIter" }
                                                 ELSE failures
                                  /\ UNCHANGED << pc, errors, funcErr, exitCode, exitBy >>
    /\ UNCHANGED << lookupMode, lookupVersion, dbType, db, dbErr,
                    desktopVersionCount, mobileVersionCount, report >>
    /\ UNCHANGED fixedVars

\* rows.Next() is false, because the rows are exhausted or because the cursor
\* failed: doLookup returns nil without asking rows.Err(), and main ends
doLookupEnd ==
    /\ pc = "lookupScan"
    /\ \E iterErr \in BOOLEAN :
         failures' = IF iterErr THEN failures \cup { "iter" } ELSE failures
    /\ funcErr' = "nil"
    /\ Exit(0, "return")
    /\ UNCHANGED << lookupMode, lookupVersion, dbType, db, dbErr, queryAttempts,
                    scanVars, errors >>
    /\ UNCHANGED fixedVars

Next ==
    \/ MainFlags
    \/ LoadConfig
    \/ ConnectDatabase
    \/ processDatabaseQuery
    \/ processDatabaseRow
    \/ processDatabaseEnd
    \/ doLookupOpen
    \/ doLookupRow
    \/ doLookupEnd

Spec == Init /\ [][Next]_vars

(* ----------------------------------------------- the tally on its own *)

\* processDatabase at its loop, on a table of the rows that are counted
InitTally ==
    /\ pc = "scan"
    /\ lookupMode = FALSE
    /\ lookupVersion = << >>
    /\ dbType \in { "postgresql", "mysql" }
    /\ db = "open"
    /\ dbErr = FALSE
    /\ queryAttempts = 1
    /\ seen = << >>
    /\ desktopVersionCount = EmptyCount
    /\ mobileVersionCount = EmptyCount
    /\ selected = << >>
    /\ csv = << >>
    /\ warnings = << >>
    /\ errors = << >>
    /\ failures = {}
    /\ funcErr = "unset"
    /\ report = NoReport
    /\ exitCode = 0 - 1
    /\ exitBy = "running"
    /\ sessions = CountedRows
    /\ cmpA = NoInput
    /\ cmpB = NoInput
    /\ cmpOut = NoOutput

NextTally ==
    \/ processDatabaseRow
    \/ processDatabaseEnd

SpecTally == InitTally /\ [][NextTally]_vars

(* ------------------------------------------ the comparator on its own *)

InitCmp ==
    /\ MainInit
    /\ sessions = SessionRows
    /\ cmpA \in VersionInputs
    /\ cmpB \in VersionInputs
    /\ cmpOut = NoOutput

\* a call isOlderOrEqual(cmpA, cmpB)
Compare ==
    /\ ~cmpOut.done
    /\ cmpOut' = [ done |-> TRUE,
                   res  |-> isOlderOrEqual(cmpA.str, cmpB.str).res,
                   err  |-> isOlderOrEqual(cmpA.str, cmpB.str).err ]
    /\ UNCHANGED << cmpA, cmpB >>
    /\ UNCHANGED mainVars

NextCmp == Compare

SpecCmp == InitCmp /\ [][NextCmp]_vars

(***************************************************************************)
(* The properties.  Their vocabulary is defined here on the raw rows, apart *)
(* from the operators that model the code.                                  *)
(***************************************************************************)

\* the positions of character ch in s
Positions(s, ch) == { i \in 1..Len(s) : s[i] = ch }

MaxOf(S) == CHOOSE x \in S : \A y \in S : y <= x

MinOf(S) == CHOOSE x \in S : \A y \in S : x <= y

\* the text after the last ch of s, all of s when it has none
AfterLast(s, ch) ==
    IF Positions(s, ch) = {} THEN s ELSE SubSeq(s, MaxOf(Positions(s, ch)) + 1, Len(s))

\* the text before the first ch of s, all of s when it has none
BeforeFirst(s, ch) ==
    IF Positions(s, ch) = {} THEN s ELSE SubSeq(s, 1, MinOf(Positions(s, ch)) - 1)

\* the row's props text decodes
Decodable(row) == row.props.kind = "object"

\* the mobile predicate, on a decodable row
MobileEligible(row) ==
    \/ row.props.isMobile = "true"
    \/ row.deviceID # ""
    \/ row.props.os \in { "Android", "iOS" }

\* the browser names a desktop app
HasDesktopMarker(row) ==
    \E i \in 1..Len(row.props.browser) :
        /\ i + 10 <= Len(row.props.browser)
        /\ SubSeq(row.props.browser, i, i + 10) = DesktopApp

\* the unit events recorded under version v
EventsOf(versionCount, v) ==
    IF v \in DOMAIN versionCount THEN versionCount[v] ELSE << >>

\* after is before with exactly one unit event (v, os) added
OneEventAdded(before, after, v, os) ==
    /\ DOMAIN after = DOMAIN before \cup { v }
    /\ after[v] = Append(EventsOf(before, v), [ OS |-> os, Count |-> 1 ])
    /\ \A w \in DOMAIN before : w # v => after[w] = before[w]

\* a step of the tally scan that handles one more row
TallyRowStep == pc = "scan" /\ Len(seen') = Len(seen) + 1

\* a step of the lookup scan that handles one more row
LookupRowStep == pc = "lookupScan" /\ Len(seen') = Len(seen) + 1

\* the (version, OS, count) triples of an aggregate
Triples(versionCount) ==
    UNION { { << v, versionCount[v][i].OS, versionCount[v][i].Count >> :
                i \in 1..Len(versionCount[v]) } : v \in DOMAIN versionCount }

(* ------------------------------------------------------------------- C1 *)

\* C1: with a DB type other than "postgresql" and "mysql", once
\* connectDatabase has returned, main holds an error from it, the process has
\* exited with a non-zero status, and no db.Query has been attempted.
C1_UnsupportedTypeIsFatal ==
    (db # "unset" /\ dbType \notin { "postgresql", "mysql" })
        => (dbErr /\ pc = "exited" /\ exitCode # 0 /\ queryAttempts = 0)

(* ------------------------------------------------------------------- C2 *)

\* C2 as stated: in tally mode every decodable mobile-eligible row whose
\* browser has at least one "/" adds exactly one unit event to the mobile
\* aggregate, under the text after the last "/" cut at the first "+".
C2_MobileAnySegments ==
    [][ TallyRowStep =>
          LET row == seen'[Len(seen')]
          IN  (Decodable(row) /\ MobileEligible(row)
                 /\ Positions(row.props.browser, "/") # {})
                => OneEventAdded(mobileVersionCount, mobileVersionCount',
                                 BeforeFirst(AfterLast(row.props.browser, "/"), "+"),
                                 row.props.os) ]_vars

\* C2 amended: in tally mode every decodable mobile-eligible row whose
\* browser has exactly one "/" (two segments) adds exactly one unit event to
\* the mobile aggregate, under the second segment cut at the first "+", also
\* when that version is "0.0"; the desktop aggregate is left alone.
C2_MobileTwoSegments ==
    [][ TallyRowStep =>
          LET row == seen'[Len(seen')]
          IN  (Decodable(row) /\ MobileEligible(row)
                 /\ Cardinality(Positions(row.props.browser, "/")) = 1)
                => /\ OneEventAdded(mobileVersionCount, mobileVersionCount',
                                    BeforeFirst(AfterLast(row.props.browser, "/"), "+"),
                                    row.props.os)
                   /\ desktopVersionCount' = desktopVersionCount ]_vars

\* a mobile row "Mobile App/2.0.0+45" and a mobile row "Mobile App/0.0" have
\* both been tallied
C2_Witness ==
    /\ pc = "scan"
    /\ Len(seen) = 2
    /\ MobileEligible(seen[1]) /\ Positions(seen[1].props.browser, "+") # {}
    /\ MobileEligible(seen[2]) /\ AfterLast(seen[2].props.browser, "/") = ZeroVersion
    /\ DOMAIN mobileVersionCount = { Ver(2, 0, 0), ZeroVersion }

(* ------------------------------------------------------------------- C3 *)

\* the class the spec gives a decodable row
SpecClass(row) ==
    IF MobileEligible(row) THEN "Mobile"
    ELSE IF HasDesktopMarker(row) THEN "Desktop"
    ELSE "Unclassified"

\* the record the code classifies: the decoded props with the row's device id
DecodedProps(row) == [ Unmarshal(row.props).data EXCEPT !.DeviceID = row.deviceID ]

\* C3: every decodable row is given the one class of Mobile, Desktop,
\* Unclassified that the mobile-first rule gives it; a mobile-eligible row
\* never changes the desktop aggregate (tally) and is never selected
\* (lookup), also when its browser contains "Desktop App"; an unclassified
\* row changes neither aggregate.
C3_ClassifierMobileFirst ==
    [][ (TallyRowStep \/ LookupRowStep) =>
          LET row == seen'[Len(seen')]
          IN  Decodable(row) =>
                /\ ClientClass(DecodedProps(row), row.deviceID) = SpecClass(row)
                /\ SpecClass(row) = "Mobile" =>
                      /\ desktopVersionCount' = desktopVersionCount
                      /\ selected' = selected
                /\ SpecClass(row) = "Unclassified" =>
                      /\ desktopVersionCount' = desktopVersionCount
                      /\ mobileVersionCount' = mobileVersionCount
                      /\ selected' = selected ]_vars

\* a row with a device id and the browser "Mattermost Desktop App/1.0.0" has
\* been tallied: it is in the mobile aggregate and not in the desktop one
C3_Witness ==
    /\ pc = "scan"
    /\ Len(seen) = 1
    /\ seen[1].deviceID # "" /\ HasDesktopMarker(seen[1])
    /\ desktopVersionCount = EmptyCount
    /\ DOMAIN mobileVersionCount = { Ver(1, 0, 0) }

(* ------------------------------------------------------------------- C4 *)

\* C4: in tally mode a decodable non-mobile row whose browser contains
\* "Desktop App" adds exactly one unit event (V, os) to the desktop aggregate
\* if its browser has exactly one "/" and the text V after it is not "0.0",
\* and otherwise changes neither aggregate; the mobile aggregate is left
\* alone and the scan goes on either way.
C4_DesktopTwoSegments ==
    [][ TallyRowStep =>
          LET row == seen'[Len(seen')]
              br  == row.props.browser
          IN  (Decodable(row) /\ ~MobileEligible(row) /\ HasDesktopMarker(row))
                => /\ pc' = "scan"
                   /\ funcErr' = funcErr
                   /\ mobileVersionCount' = mobileVersionCount
                   /\ IF Cardinality(Positions(br, "/")) = 1
                           /\ AfterLast(br, "/") # ZeroVersion
                      THEN OneEventAdded(desktopVersionCount, desktopVersionCount',
                                         AfterLast(br, "/"), row.props.os)
                      ELSE desktopVersionCount' = desktopVersionCount ]_vars

\* desktop rows with version "0.0", with three segments and with version
\* "1.0.0" have been tallied: only the last is in the desktop aggregate
C4_Witness ==
    /\ pc = "scan"
    /\ Len(seen) = 3
    /\ \A k \in 1..3 : Decodable(seen[k]) /\ ~MobileEligible(seen[k])
                         /\ HasDesktopMarker(seen[k])
    /\ AfterLast(seen[1].props.browser, "/") = ZeroVersion
    /\ Cardinality(Positions(seen[2].props.browser, "/")) = 2
    /\ seen[3].props.browser = DesktopName \o Slash \o Ver(1, 0, 0)
    /\ desktopVersionCount = (Ver(1, 0, 0) :> << [ OS |-> seen[3].props.os, Count |-> 1 ] >>)
    /\ mobileVersionCount = EmptyCount

(* ------------------------------------------------------------------- C5 *)

\* after is the consolidation of the unit events before: the same versions,
\* and per version one entry per OS seen, with the number of its events
Consolidated(before, after) ==
    /\ DOMAIN after = DOMAIN before
    /\ \A v \in DOMAIN before :
         /\ \A i, j \in 1..Len(after[v]) : i # j => after[v][i].OS # after[v][j].OS
         /\ { after[v][i].OS : i \in 1..Len(after[v]) }
              = { before[v][i].OS : i \in 1..Len(before[v]) }
         /\ \A i \in 1..Len(after[v]) :
              after[v][i].Count
                = Cardinality({ k \in 1..Len(before[v]) : before[v][k].OS = after[v][i].OS })
         /\ sumCounts(after[v]) = Len(before[v])

\* C5: when processDatabase returns without error, each aggregate holds, for
\* every version, exactly one entry per distinct OS collected for it, whose
\* count is the number of unit events with that version and OS; the counts of
\* a version add up to the number of its events.
C5_Consolidation ==
    [][ (pc = "scan" /\ pc' = "exited" /\ funcErr' = "nil") =>
          /\ Consolidated(desktopVersionCount, desktopVersionCount')
          /\ Consolidated(mobileVersionCount, mobileVersionCount') ]_vars

\* a tally has ended with a version that has two OS entries, one counting
\* two sessions
C5_Witness ==
    /\ pc = "exited" /\ ~lookupMode /\ funcErr = "nil"
    /\ \E v \in DOMAIN desktopVersionCount :
         /\ Len(desktopVersionCount[v]) = 2
         /\ \E i \in 1..2 : desktopVersionCount[v][i].Count = 2

(* ------------------------------------------------------------------- C6 *)

\* the sequences that hold the rows of rows in another order
Reorderings(rows) ==
    { [ i \in 1..Len(rows) |-> rows[f[i]] ] :
        f \in { g \in [ 1..Len(rows) -> 1..Len(rows) ] :
                  \A i, j \in 1..Len(rows) : i # j => g[i] # g[j] } }

\* C6: when a tally ends without error, processDatabase on any reordering of
\* the rows it has read yields, whatever order aggregateCounts visits its
\* maps in, desktop and mobile aggregates with the same (version, OS, count)
\* triples as the ones this run produced.
C6_OrderIndependent ==
    (pc = "exited" /\ ~lookupMode /\ funcErr = "nil") =>
        \A p \in Reorderings(seen) :
            /\ \A d \in aggregateCounts(collect(p).desktop) :
                 Triples(d) = Triples(desktopVersionCount)
            /\ \A m \in aggregateCounts(collect(p).mobile) :
                 Triples(m) = Triples(mobileVersionCount)

\* a tally of three rows for one version has ended, the two rows of one OS
\* apart from each other
C6_Witness ==
    /\ pc = "exited" /\ ~lookupMode /\ funcErr = "nil"
    /\ Len(seen) = 3
    /\ seen[1] = seen[3] /\ seen[1] # seen[2]
    /\ \E v \in DOMAIN desktopVersionCount :
         Triples(desktopVersionCount)
            = { << v, seen[1].props.os, 2 >>, << v, seen[2].props.os, 1 >> }

(* ------------------------------------------------------------------- C7 *)

\* (major, minor, patch) of x is at most that of y
LexLE(x, y) ==
    \/ x[1] < y[1]
    \/ x[1] = y[1] /\ x[2] < y[2]
    \/ x[1] = y[1] /\ x[2] = y[2] /\ x[3] <= y[3]

\* C7: isOlderOrEqual(a, b) on two strings of exactly three "."-separated
\* integers returns, without error, whether (major, minor, patch) of a is at
\* most that of b; when either string is not of that form it returns an
\* error and false.
C7_Comparator ==
    cmpOut.done =>
        IF cmpA.ok /\ cmpB.ok
        THEN ~cmpOut.err /\ (cmpOut.res <=> LexLE(cmpA.num, cmpB.num))
        ELSE cmpOut.err /\ ~cmpOut.res

\* a comparison decided by the major number against the minor number
C7_Witness ==
    /\ cmpOut.done /\ cmpA.ok /\ cmpB.ok
    /\ cmpA.num[1] < cmpB.num[1] /\ cmpA.num[2] > cmpB.num[2]
    /\ cmpOut.res /\ ~cmpOut.err

(* ------------------------------------------------------------------- C8 *)

\* C8: a run in which a query failed to execute or a cursor stopped with an
\* error ends with the scanning function returning an error and a non-zero
\* exit status.
C8_QueryFailureIsFatal ==
    (pc = "exited" /\ failures \cap { "query", "iter", "userQuery", "userIter" } # {})
        => (funcErr = "error" /\ exitCode # 0)

(* ------------------------------------------------------------------- C9 *)

\* the rows of rows that decode
DecodableRows(rows) == SelectSeq(rows, Decodable)

\* C9: rows whose props do not decode are skipped with a warning each and
\* nothing else: the aggregates a tally ends with, and the sessions a lookup
\* has selected when it ends, are those that the decodable rows alone give,
\* later rows included, and an error is returned only after a failure of the
\* database or of the output file.
C9_DecodeFailureSkipped ==
    /\ (pc = "exited" /\ ~lookupMode /\ funcErr = "nil") =>
         LET alone == collect(DecodableRows(seen))
         IN  /\ \E d \in aggregateCounts(alone.desktop) : d = desktopVersionCount
             /\ \E m \in aggregateCounts(alone.mobile) : m = mobileVersionCount
    /\ (pc = "exited" /\ lookupMode /\ funcErr = "nil") =>
         selected = lookupAll(DecodableRows(seen), lookupVersion).selected
    /\ pc = "exited" =>
         Cardinality({ i \in 1..Len(warnings) : warnings[i].kind = "unmarshal" })
            = Len(seen) - Len(DecodableRows(seen))
    /\ funcErr = "error" => failures # {}

\* a tally has ended without error on a malformed row between two rows of
\* the same desktop version and OS: the aggregate counts the two
C9_Witness ==
    /\ pc = "exited" /\ ~lookupMode /\ funcErr = "nil"
    /\ Len(seen) = 3
    /\ seen[2].props.kind = "malformed"
    /\ seen[1] = seen[3]
    /\ Triples(desktopVersionCount) = { << Ver(1, 0, 0), seen[1].props.os, 2 >> }

(* ------------------------------------------------------------------ C10 *)

DecimalDigits == { "0", "1", "2", "3", "4", "5", "6", "7", "8", "9" }

\* t is a decimal integer: an optional sign and one or more digits
IsInteger(t) ==
    LET body == IF Len(t) > 0 /\ t[1] \in { "+", "-" } THEN Tail(t) ELSE t
    IN  Len(body) > 0 /\ \A k \in 1..Len(body) : body[k] \in DecimalDigits

\* v is three integers separated by two "."
ThreeIntegers(v) ==
    /\ Cardinality(Positions(v, ".")) = 2
    /\ IsInteger(SubSeq(v, 1, MinOf(Positions(v, ".")) - 1))
    /\ IsInteger(SubSeq(v, MinOf(Positions(v, ".")) + 1, MaxOf(Positions(v, ".")) - 1))
    /\ IsInteger(SubSeq(v, MaxOf(Positions(v, ".")) + 1, Len(v)))

\* C10: in lookup mode a decodable non-mobile row whose browser contains
\* "Desktop App", has exactly one "/" and a version V after it that is not
\* "0.0" and is not three integers, is added to the selected sessions, and a
\* warning naming V is logged.
C10_FailOpen ==
    [][ LookupRowStep =>
          LET row == seen'[Len(seen')]
              br  == row.props.browser
              V   == AfterLast(br, "/")
          IN  (Decodable(row) /\ ~MobileEligible(row) /\ HasDesktopMarker(row)
                 /\ Cardinality(Positions(br, "/")) = 1
                 /\ V # ZeroVersion /\ ~ThreeIntegers(V))
                => /\ selected' = Append(selected, [ version |-> V, os |-> row.props.os,
                                                     userID |-> row.userID ])
                   /\ \E i \in (Len(warnings) + 1)..Len(warnings') :
                        warnings'[i] = [ kind |-> "version", version |-> V ] ]_vars

\* under a well-formed threshold a session of version "1.0" has been selected
\* and warned about
C10_Witness ==
    /\ pc = "lookupScan"
    /\ ThreeIntegers(lookupVersion)
    /\ Len(seen) = 1
    /\ Len(selected) = 1 /\ ~ThreeIntegers(selected[1].version)
    /\ \E i \in 1..Len(warnings) :
         warnings[i] = [ kind |-> "version", version |-> selected[1].version ]

(* ------------------------------------------------------------------ C11 *)

\* the sum of the counts of a set of (version, OS, count) triples
RECURSIVE SumOfCounts(_)
SumOfCounts(T) ==
    IF T = {} THEN 0
    ELSE LET t == CHOOSE x \in T : TRUE
         IN  t[3] + SumOfCounts(T \ { t })

\* sec is the report of a class with the entries T: for no entry the "none
\* found" line and nothing else, else a header, each entry on one line and
\* the sum of the counts as subtotal
ClassReported(sec, T) ==
    IF T = {}
    THEN sec = [ shown |-> "none found" ]
    ELSE /\ DOMAIN sec = { "shown", "lines", "total" }
         /\ sec.shown = "versions"
         /\ DOMAIN sec.lines
              = { [ version |-> t[1], os |-> t[2], count |-> t[3] ] : t \in T }
         /\ \A l \in DOMAIN sec.lines : sec.lines[l] = 1
         /\ sec.total = SumOfCounts(T)

\* C11: the report that printResults has written for the consolidated
\* aggregates of a tally is, when both are empty, the single message "No
\* Mattermost Apps Found" with no section, subtotal or grand total; else it
\* has for each non-empty class a header, one line per (version, OS, count)
\* entry and the sum of that class's counts as subtotal, for an empty class
\* the "none found" line alone, and as grand total the sum of all counts of
\* both classes.
C11_Report ==
    (pc = "exited" /\ ~lookupMode /\ funcErr = "nil") =>
        IF Triples(desktopVersionCount) = {} /\ Triples(mobileVersionCount) = {}
        THEN report = [ text |-> "No Mattermost Apps Found" ]
        ELSE /\ DOMAIN report = { "text", "desktop", "mobile", "grandTotal" }
             /\ report.text = "sections"
             /\ ClassReported(report.desktop, Triples(desktopVersionCount))
             /\ ClassReported(report.mobile, Triples(mobileVersionCount))
             /\ report.grandTotal = SumOfCounts(Triples(desktopVersionCount))
                                      + SumOfCounts(Triples(mobileVersionCount))

\* the report of two desktop sessions of one version and OS and one mobile
\* session: a desktop line with count 2, the subtotals 2 and 1, the grand
\* total 3
C11_Witness ==
    /\ pc = "exited" /\ ~lookupMode /\ funcErr = "nil"
    /\ Len(seen) = 3
    /\ report.text = "sections"
    /\ report.desktop.shown = "versions"
    /\ \E l \in DOMAIN report.desktop.lines : l.count = 2
    /\ report.desktop.total = 2
    /\ report.mobile.shown = "versions"
    /\ report.mobile.total = 1
    /\ report.grandTotal = 3

\* a report with one class empty: the "none found" line for the desktop
\* class next to a mobile section
C11_NoneFound ==
    /\ pc = "exited" /\ ~lookupMode /\ funcErr = "nil"
    /\ report.text = "sections"
    /\ report.desktop = [ shown |-> "none found" ]
    /\ report.mobile.total = 2

(* ------------------------------------------------------------------ C12 *)

\* the version string v denotes three integers that are at most those that
\* the threshold string denotes
AtMostThreshold(v, threshold) ==
    \E a \in WellFormedInputs, b \in WellFormedInputs :
        a.str = v /\ b.str = threshold /\ LexLE(a.num, b.num)

\* C12: in lookup mode, under any threshold that main accepts, a row adds a
\* session to the selection only if it is a decodable non-mobile row whose
\* browser contains "Desktop App" and has a version other than "0.0"; when
\* that version is three integers, only if the threshold is three integers
\* too and the version is at most the threshold.
C12_SelectedOnlyAtMostThreshold ==
    [][ (LookupRowStep /\ selected' # selected) =>
          LET row == seen'[Len(seen')]
              V   == AfterLast(row.props.browser, "/")
          IN  /\ Decodable(row) /\ ~MobileEligible(row) /\ HasDesktopMarker(row)
              /\ V # ZeroVersion
              /\ ThreeIntegers(V) => AtMostThreshold(V, lookupVersion) ]_vars

====
